---- MODULE Spec2Model ----
(***************************************************************************)
(* FleaStore: an embeddable store of records of one type T keyed by a     *)
(* user identifier, persisted by a snapshot file, a write-ahead log and   *)
(* an overflow file of demoted bodies.                                     *)
(*                                                                         *)
(* The model keeps the in-memory record table of one Store value and the   *)
(* three files of its directory.  One action stands for one public         *)
(* operation (or one tick of the periodic snapshot task); every operation  *)
(* holds the store mutex from start to end, so each is one atomic step.    *)
(* The iteration order of a Go map is unspecified: every loop over         *)
(* s.index is modelled by a nondeterministic choice of the order.          *)
(* A nil-pointer dereference is a run-time panic; nothing in the package   *)
(* recovers it, so the process stops ("crashed") and only the files stay.  *)
(***************************************************************************)
EXTENDS Integers, Sequences, FiniteSets, TLC

\* ---------------------------------------------------------------- bounds
MaxId    == 1      \* the identifiers written are 0..MaxId
MaxVal   == 1      \* the payload field of a body is 0..MaxVal
MaxRecs  == 2      \* longest record table
MaxWal   == 2      \* longest write-ahead log
MaxData  == 3      \* longest overflow file
MaxBatch == 2      \* longest PutAll batch
MaxCount == 2      \* onlineCount is kept within -MaxCount..MaxCount
ScanMax  == 6      \* the scan scenario puts the identifiers 1..ScanMax
CapWal   == 4      \* longest log of a store that is never snapshotted

\* ---------------------------------------------------------------- values
Ids  == 0 .. MaxId
Vals == 0 .. MaxVal

\* A body of type T: the tests' testUser{Id, Val}.  Body holds the bodies
\* the operations of Spec are given, ScanBody those of the scan scenario.
Body     == [id : Ids, val : Vals]
ScanBody == [id : 1 .. ScanMax, val : Vals]
AnyBody  == Body \cup ScanBody

\* A nil *T (record.value of a demoted record); as a line of a file, the
\* JSON text "null" that json.Encoder writes for a nil pointer.
NoValue == [id |-> -1, val |-> -1]

\* The zero value of T ("var i T").
Zero == [id |-> 0, val |-> 0]

\* LOW, the value Options.Validate stores for an absent MaxOnlineRecords.
LOW == -1

\* The identifier function of the tests: the Id field.
idFunc(v) == v.id

\* json.Encoder.Encode of a *T: the body, or "null" for a nil pointer.
EncodeLine(value) == value

\* json.Unmarshal(line, &i) into a fresh zero T: "null" leaves i untouched.
DecodeLine(line) == IF line = NoValue THEN Zero ELSE line

\* Predicates (Get, Delete) and residency functions are given by the set of
\* bodies on which they return true.
All       == AnyBody
ById(k)   == {b \in AnyBody : b.id = k}
ByVal(x)  == {b \in AnyBody : b.val = x}
OddIds    == {b \in AnyBody : b.id % 2 = 1}
Preds     == {All} \cup {ById(k) : k \in Ids}

\* Options: ResidencyFunc (hasFn FALSE is a nil function),
\* MaxOnlineRecords (a *int: <<>> is nil, <<n>> points to n), Checkers (the
\* names of the validators, in order) and IDFunc (noId: the identifiers of
\* the bodies on which it returns an error).
Options(hasFn, keep, max, checkers, noId) ==
  [hasFn |-> hasFn, keep |-> keep, max |-> max, checkers |-> checkers, noId |-> noId]

\* The options of the stores of Spec: no validator, an IDFunc that never fails.
Configs ==
  { Options(FALSE, {},       <<>>,   <<>>, {}),
    Options(TRUE,  {},       <<>>,   <<>>, {}),
    Options(TRUE,  {},       <<-1>>, <<>>, {}),
    Options(TRUE,  {},       <<0>>,  <<>>, {}),
    Options(TRUE,  OddIds,   <<-1>>, <<>>, {}),
    Options(TRUE,  ByVal(0), <<-1>>, <<>>, {}) }

Batches == UNION {[1 .. n -> Body] : n \in 0 .. MaxBatch}

\* ---------------------------------------------------------------- state
VARIABLES
  opts,            \* the Options every Open of the directory is given
  pc,              \* "open", "closed" (after Close) or "crashed" (panic)
  records,         \* Store.records: sequence of [value, deleted]
  index,           \* Store.index: id -> position of its record in records
  dirty,           \* Store.dirty
  onlineCount,     \* Store.onlineCount
  hasOfflineData,  \* Store.hasOfflineData
  wal,             \* wal.log: sequence of [op, id, value]
  snapExists,      \* snapshot.ndjson exists
  snapFile,        \* its lines
  dataExists,      \* data.ndjson exists
  dataFile,        \* its lines
  \* History variables: what the callers asked of the store so far and what
  \* they were answered.  No operation reads them.
  ret,             \* Ok, or [op, err] of the last operation if it returned an error
  seen,            \* <<old, live>>: the old value the validators of the last Put
                   \* were given and the live body of that id (NoValue: none)
  ideal,           \* the bodies last Put and not deleted since, by first Put
  hist,            \* "puts": only Put so far; "writes": only Put and PutAll
  upd,             \* <<v, v2>> right after a Put of v2 over the live body v
  banned,          \* bodies matched by a successful Delete, id not Put since
  gone,            \* bodies returned by a successful Delete, id not Put since
  idle,            \* Close/Open cycles since the last write or panic (at most 2)
  \* Concurrent callers (goroutines).
  mu,              \* Store.mu: the set of goroutines inside Lock()..Unlock()
  threads,         \* goroutine -> [pc, arg, must, result]; <<>> when the
                   \* operations are called one after the other
  snapTmp,         \* snapshot.tmp: [exists, lines]; followed only where
                   \* snapshot() is a sequence of steps
  closedStores     \* the stores of this process that were closed and whose
                   \* snapshotLoop still runs: [records, dirty]; followed
                   \* only where the ticks of closed stores are

vars == <<opts, pc, records, index, dirty, onlineCount, hasOfflineData,
          wal, snapExists, snapFile, dataExists, dataFile,
          ret, seen, ideal, hist, upd, banned, gone, idle, mu, threads, snapTmp, closedStores>>

memory  == <<records, index, dirty, onlineCount, hasOfflineData>>
disk    == <<wal, snapExists, snapFile, dataExists, dataFile>>
history == <<ideal, hist, upd, banned, gone, idle>>
answers == <<ret, seen>>
conc    == <<mu, threads>>

\* A file that does not exist.
NoFile == [exists |-> FALSE, lines |-> <<>>]

\* The answer of an operation that returned no error.
Ok == [op |-> "", err |-> ""]

\* ---------------------------------------------------------------- helpers
Range(s) == {s[i] : i \in DOMAIN s}

\* Every order in which a range over a map with key set S can run.
RECURSIVE Orders(_)
Orders(S) ==
  IF S = {} THEN {<<>>}
  ELSE UNION {{<<x>> \o o : o \in Orders(S \ {x})} : x \in S}

EmptyIndex == [k \in {} |-> 0]

\* Options.Validate: a nil MaxOnlineRecords becomes &LOW.
Validate(o) == [o EXCEPT !.max = IF o.max = <<>> THEN <<LOW>> ELSE o.max]

\* Store.maxInMemory and Store.residencyFn, as Open copies them from the
\* validated options.
maxInMemory == Validate(opts).max[1]
residencyFn(v) == v \in opts.keep

\* ---------------------------------------------------------------- record table
\* addOrUpdate: the store with the new records, index and onlineCount.
addOrUpdate(st, id, value) ==
  IF id \in DOMAIN st.index
  THEN [st EXCEPT !.records[st.index[id]] = [value |-> value, deleted |-> FALSE]]
  ELSE [st EXCEPT
          !.records     = Append(st.records, [value |-> value, deleted |-> FALSE]),
          !.index       = [k \in DOMAIN st.index \cup {id} |->
                             IF k = id THEN Len(st.records) + 1 ELSE st.index[k]],
          !.onlineCount = st.onlineCount + 1]

\* deleteByID (WAL replay).
deleteByID(st, id) ==
  IF id \notin DOMAIN st.index THEN st
  ELSE [st EXCEPT !.records[st.index[id]].deleted = TRUE,
                  !.index = [k \in DOMAIN st.index \ {id} |-> st.index[k]],
                  !.dirty = TRUE]

\* ---------------------------------------------------------------- residency
\* The loop of handleResidency over the ids in the order `ids`.
RECURSIVE residencyLoop(_, _, _, _, _)
residencyLoop(ids, idx, recs, oc, offline) ==
  IF ids = <<>> THEN [records |-> recs, onlineCount |-> oc, offline |-> offline]
  ELSE LET pos == idx[Head(ids)]
           obj == recs[pos].value
       IN IF obj = NoValue \/ residencyFn(obj)
          THEN residencyLoop(Tail(ids), idx, recs, oc, offline)
          ELSE LET recs2 == [recs EXCEPT ![pos].value = NoValue]
                   off2  == Append(offline, obj)
               IN IF maxInMemory >= 0 /\ oc - 1 <= maxInMemory
                  THEN [records |-> recs2, onlineCount |-> oc - 1, offline |-> off2]
                  ELSE residencyLoop(Tail(ids), idx, recs2, oc - 1, off2)

\* A pass that tombstones the records it demotes.
handleResidencyTombstoning(st) ==
  IF ~opts.hasFn
  THEN {[records |-> st.records, onlineCount |-> st.onlineCount,
         ran |-> FALSE, offline |-> <<>>]}
  ELSE LET out == {i \in DOMAIN st.records :
                     /\ st.records[i].value # NoValue
                     /\ ~st.records[i].deleted
                     /\ ~residencyFn(st.records[i].value)}
           off == SelectSeq(st.records,
                            LAMBDA r : r.value # NoValue /\ ~r.deleted /\ ~residencyFn(r.value))
       IN {[records     |-> [i \in DOMAIN st.records |->
                               IF i \in out THEN [value |-> NoValue, deleted |-> TRUE]
                               ELSE st.records[i]],
            onlineCount |-> st.onlineCount - Cardinality(out),
            ran         |-> TRUE,
            offline     |-> [i \in DOMAIN off |-> off[i].value]]}

\* handleResidency: the set of outcomes [records, onlineCount, ran, offline];
\* `ran` tells that appendOffline was called with `offline`.
handleResidency(st) ==
  IF ~opts.hasFn
  THEN {[records |-> st.records, onlineCount |-> st.onlineCount,
         ran |-> FALSE, offline |-> <<>>]}
  ELSE IF maxInMemory >= 0 /\ Cardinality(DOMAIN st.index) <= maxInMemory
  THEN {[records |-> st.records, onlineCount |-> st.onlineCount,
         ran |-> FALSE, offline |-> <<>>]}
  ELSE {LET r == residencyLoop(o, st.index, st.records, st.onlineCount, <<>>)
        IN [records |-> r.records, onlineCount |-> r.onlineCount,
            ran |-> TRUE, offline |-> r.offline] : o \in Orders(DOMAIN st.index)}

\* appendOffline: data.ndjson after the batch was appended (O_CREATE|O_APPEND).
appendOffline(file, batch) == file \o batch

\* ---------------------------------------------------------------- checkers
\* A validator (Checker) by name: [err, next], next = NoValue for a nil *T.
\*   "allow"  returns (nil, nil);
\*   "block"  returns an error, always;
\*   "norm"   returns the proposed value in normal form (val = 0);
\*   "limit"  returns an error when the proposed val is MaxVal;
\*   "bump"   returns the proposed value with the next val (modulo MaxVal + 1);
\*   "frozen" returns the proposed value with the val of old, on updates.
checker(name, old, new) ==
  CASE name = "allow"  -> [err |-> FALSE, next |-> NoValue]
    [] name = "block"  -> [err |-> TRUE,  next |-> NoValue]
    [] name = "norm"   -> [err |-> FALSE, next |-> [new EXCEPT !.val = 0]]
    [] name = "limit"  -> [err |-> new.val = MaxVal, next |-> NoValue]
    [] name = "bump"   -> [err |-> FALSE,
                           next |-> [new EXCEPT !.val = (new.val + 1) % (MaxVal + 1)]]
    [] name = "frozen" -> [err |-> FALSE,
                           next |-> IF old = NoValue THEN NoValue
                                    ELSE [new EXCEPT !.val = old.val]]

\* A chain that gives every validator the value the caller proposed.
checkersLoopApart(chain, old, current) ==
  IF \E i \in DOMAIN chain : checker(chain[i], old, current).err
  THEN [err |-> TRUE, value |-> NoValue]
  ELSE LET changing == {i \in DOMAIN chain : checker(chain[i], old, current).next # NoValue}
       IN [err |-> FALSE,
           value |-> IF changing = {} THEN current
                     ELSE checker(chain[CHOOSE i \in changing : \A j \in changing : j <= i],
                                  old, current).next]

\* The loop of runCheckers over the validators `chain`.
RECURSIVE checkersLoop(_, _, _)
checkersLoop(chain, old, current) ==
  IF chain = <<>> THEN [err |-> FALSE, value |-> current]
  ELSE LET r == checker(Head(chain), old, current)
       IN IF r.err THEN [err |-> TRUE, value |-> NoValue]
          ELSE checkersLoop(Tail(chain), old,
                            IF r.next # NoValue THEN r.next ELSE current)

\* runCheckers(old, new) over s.checkers: [err, value].
runCheckers(old, new) == checkersLoop(opts.checkers, old, new)

\* ---------------------------------------------------------------- scan
\* The loop of Get over s.records.
RECURSIVE onlineMatching(_, _)
onlineMatching(recs, p) ==
  IF recs = <<>> THEN <<>>
  ELSE LET r == Head(recs)
       IN IF r.deleted \/ r.value = NoValue \/ r.value \notin p
          THEN onlineMatching(Tail(recs), p)
          ELSE <<r.value>> \o onlineMatching(Tail(recs), p)

\* getOfflineMatching: the decoded lines of data.ndjson that satisfy p.
RECURSIVE getOfflineMatching(_, _)
getOfflineMatching(file, p) ==
  IF file = <<>> THEN <<>>
  ELSE (IF DecodeLine(Head(file)) \in p THEN <<DecodeLine(Head(file))>> ELSE <<>>)
       \o getOfflineMatching(Tail(file), p)

\* A Get that scans the overflow file before the record table.
GetOverflowFirst(p) ==
  (IF hasOfflineData /\ dataExists THEN getOfflineMatching(dataFile, p) ELSE <<>>)
    \o onlineMatching(records, p)

\* Store.Get(p).
Get(p) ==
  onlineMatching(records, p)
    \o (IF hasOfflineData /\ dataExists THEN getOfflineMatching(dataFile, p) ELSE <<>>)

\* ---------------------------------------------------------------- snapshot
\* compact panics when a surviving record has a nil value (idFunc(*rec.value)).
compactPanics(recs) == \E i \in DOMAIN recs : ~recs[i].deleted /\ recs[i].value = NoValue

RECURSIVE liveRecords(_)
liveRecords(recs) ==
  IF recs = <<>> THEN <<>>
  ELSE (IF Head(recs).deleted THEN <<>> ELSE <<Head(recs)>>) \o liveRecords(Tail(recs))

\* The index that maps the id of each record's value to the last record
\* holding a value of that id (compact and recreateIndex).
recreateIndex(recs) ==
  [k \in {idFunc(recs[i].value) : i \in DOMAIN recs} |->
     CHOOSE i \in DOMAIN recs :
       /\ idFunc(recs[i].value) = k
       /\ \A j \in DOMAIN recs : idFunc(recs[j].value) = k => j <= i]

\* The lines snapshot() writes: one per record that is not deleted.
snapshotLines(recs) ==
  [i \in DOMAIN liveRecords(recs) |-> EncodeLine(liveRecords(recs)[i].value)]

\* loadSnapshot: one record per line.
loadSnapshot(lines) ==
  [i \in DOMAIN lines |-> [value |-> DecodeLine(lines[i]), deleted |-> FALSE]]

\* ---------------------------------------------------------------- replay
\* A replay that runs the validators of the store on every logged Put.
RECURSIVE replayWALChecked(_, _)
replayWALChecked(st, log) ==
  IF log = <<>> THEN st
  ELSE LET op  == Head(log)
           old == IF op.id \in DOMAIN st.index
                  THEN st.records[st.index[op.id]].value ELSE NoValue
           r   == checkersLoop(st.checkers, old, op.value)
       IN replayWALChecked(IF op.op = "put"
                           THEN (IF r.err THEN st ELSE addOrUpdate(st, op.id, r.value))
                           ELSE deleteByID(st, op.id),
                           Tail(log))

RECURSIVE replayWAL(_, _)
replayWAL(st, log) ==
  IF log = <<>> THEN st
  ELSE LET op == Head(log)
       IN replayWAL(IF op.op = "put" THEN addOrUpdate(st, op.id, op.value)
                    ELSE deleteByID(st, op.id),
                    Tail(log))

\* A truncate that empties the log that was replayed.
truncateReplayed(log) == <<>>

\* truncate(f) on the handle replayWAL got from os.Open: the handle is
\* read-only, Truncate fails and the error is dropped; the log is kept.
truncateReadOnly(log) == log

\* truncate(s.wal.file) in snapshot(): the handle is open for writing.
truncate(log) == <<>>

putOp(id, value) == [op |-> "put", id |-> id, value |-> value]
deleteOp(id)     == [op |-> "delete", id |-> id, value |-> Zero]

\* ---------------------------------------------------------------- history
\* The table the callers expect: a Put of a live id replaces its body in
\* place, a Put of another id is appended, a Delete removes what it matches.
idealPut(seq, v) ==
  IF \E i \in DOMAIN seq : seq[i].id = v.id
  THEN [i \in DOMAIN seq |-> IF seq[i].id = v.id THEN v ELSE seq[i]]
  ELSE Append(seq, v)

RECURSIVE idealPutAll(_, _)
idealPutAll(seq, values) ==
  IF values = <<>> THEN seq ELSE idealPutAll(idealPut(seq, Head(values)), Tail(values))

idealDelete(seq, p) == SelectSeq(seq, LAMBDA b : b \notin p)

idsOf(values) == {values[i].id : i \in DOMAIN values}

\* The live body of an identifier, NoValue if it has none.
liveBody(seq, id) ==
  IF \E i \in DOMAIN seq : seq[i].id = id
  THEN (CHOOSE b \in Range(seq) : b.id = id)
  ELSE NoValue

\* ---------------------------------------------------------------- initial state
\* The store right after the first Open of an empty directory with the
\* options o.
Start(o) ==
  /\ opts = o
  /\ pc = "open"
  /\ records = <<>>
  /\ index = EmptyIndex
  /\ dirty = FALSE
  /\ onlineCount = 0
  /\ hasOfflineData = opts.hasFn
  /\ wal = <<>>
  /\ snapExists = FALSE
  /\ snapFile = <<>>
  /\ dataExists = opts.hasFn
  /\ dataFile = <<>>
  /\ ret = Ok
  /\ seen = <<>>
  /\ ideal = <<>>
  /\ hist = "puts"
  /\ upd = <<>>
  /\ banned = {}
  /\ gone = {}
  /\ idle = 0
  /\ snapTmp = NoFile
  /\ closedStores = {}

\* One caller: nobody contends for the mutex.
Single == mu = {} /\ threads = <<>>

Init == \E o \in Configs : Start(o) /\ Single

store == [records |-> records, index |-> index, onlineCount |-> onlineCount,
          dirty |-> dirty, checkers |-> opts.checkers]

\* ---------------------------------------------------------------- operations
\* IDFunc(value) returns an error.
idFails(value) == value.id \in opts.noId

\* s.index[id].value, nil when the id is not indexed.
currentOf(id) == IF id \in DOMAIN index THEN records[index[id]].value ELSE NoValue

\* A return on an error that leaves the store marked dirty.
AbortedDirty(op, err) ==
  /\ ret' = [op |-> op, err |-> err]
  /\ dirty' = TRUE
  /\ UNCHANGED <<opts, pc, records, index, onlineCount, hasOfflineData, disk, history>>

\* The return of Put and PutAll on an error of the identifier function or
\* of a validator: before the log is written.
Aborted(op, err) ==
  /\ ret' = [op |-> op, err |-> err]
  /\ UNCHANGED <<opts, pc, memory, disk, history>>

\* What the file system answers to one operation: wal.append returns an
\* error (walErr) after `logged` of its entries reached the log (each entry
\* is flushed on its own, the Sync comes last), appendOffline returns an
\* error (dataErr) and writes nothing.
NoFault == [walErr |-> FALSE, logged |-> 0, dataErr |-> FALSE]
Faults(n) ==
  {NoFault, [walErr |-> FALSE, logged |-> 0, dataErr |-> TRUE]}
    \cup {[walErr |-> TRUE, logged |-> k, dataErr |-> FALSE] : k \in 0 .. n}

\* The return of Put and PutAll on an error of wal.append.
LogFailed(op, entries, io) ==
  /\ wal' = wal \o SubSeq(entries, 1, io.logged)
  /\ ret' = [op |-> op, err |-> "wal"]
  /\ UNCHANGED <<opts, pc, memory, snapExists, snapFile, dataExists, dataFile, history>>

\* The call of handleResidency by Put and PutAll, its error dropped.
Residency(op, st, io) ==
  \E r \in handleResidency(st) :
    /\ records' = r.records
    /\ onlineCount' = r.onlineCount
    /\ dataFile' = IF r.ran /\ ~io.dataErr THEN appendOffline(dataFile, r.offline)
                   ELSE dataFile
    /\ dataExists' = (dataExists \/ (r.ran /\ ~io.dataErr))
    /\ ret' = IF r.ran /\ io.dataErr THEN [op |-> op, err |-> "data"] ELSE Ok

\* The end of Put, after the append to the log: addOrUpdate (whose result
\* is st) and handleResidency.
PutApplied(st, id, value2, io) ==
  /\ index' = st.index
  /\ Residency("Put", st, io)
  /\ ideal' = idealPut(ideal, value2)
  /\ upd' = IF \E i \in DOMAIN ideal : ideal[i].id = id /\ ideal[i] # value2
            THEN <<liveBody(ideal, id), value2>>
            ELSE <<>>
  /\ banned' = banned \ ById(id)
  /\ gone' = gone \ ById(id)
  /\ idle' = 0
  /\ UNCHANGED <<opts, pc, dirty, hasOfflineData, snapExists, snapFile, hist>>

\* Store.Put(value), the file system answering io.
PutIO(value, io) ==
  /\ pc = "open"
  /\ IF idFails(value)
     THEN Aborted("Put", "id") /\ seen' = <<>>
     ELSE
       LET id      == idFunc(value)
           current == currentOf(id)
           checked == runCheckers(current, value)
           value2  == checked.value
           st      == addOrUpdate(store, id, value2)
       IN /\ seen' = IF opts.checkers = <<>> THEN <<>> ELSE <<current, liveBody(ideal, id)>>
          /\ IF checked.err
             THEN Aborted("Put", "check")
             ELSE IF io.walErr
             THEN LogFailed("Put", <<putOp(id, value2)>>, io)
             ELSE
               /\ wal' = Append(wal, putOp(id, value2))
               /\ PutApplied(st, id, value2, io)

\* Store.Put(value) on a file system that works.
Put(value) == PutIO(value, NoFault)

RECURSIVE addAll(_, _)
addAll(st, values) ==
  IF values = <<>> THEN st
  ELSE addAll(addOrUpdate(st, idFunc(Head(values)), Head(values)), Tail(values))

\* The first loop of PutAll: the error of the first value that the
\* identifier function or a validator refuses ("" if there is none).  The
\* validators are given the value the index holds before the batch.
RECURSIVE firstError(_)
firstError(values) ==
  IF values = <<>> THEN ""
  ELSE IF idFails(Head(values)) THEN "id"
  ELSE IF runCheckers(currentOf(idFunc(Head(values))), Head(values)).err THEN "check"
  ELSE firstError(Tail(values))

\* Store.PutAll(values), the file system answering io: the values are
\* logged and stored as given (the result of runCheckers is dropped).
PutAllIO(values, io) ==
  /\ pc = "open"
  /\ seen' = <<>>
  /\ IF firstError(values) # ""
     THEN Aborted("PutAll", firstError(values))
     ELSE
       LET pending == [i \in DOMAIN values |-> putOp(idFunc(values[i]), values[i])]
           st      == addAll(store, values)
       IN IF io.walErr THEN LogFailed("PutAll", pending, io) ELSE
          /\ wal' = wal \o pending
          /\ index' = st.index
          /\ Residency("PutAll", st, io)
          /\ ideal' = idealPutAll(ideal, values)
          /\ hist' = IF hist = "puts" THEN "writes" ELSE hist
          /\ upd' = <<>>
          /\ banned' = {b \in banned : b.id \notin idsOf(values)}
          /\ gone' = {b \in gone : b.id \notin idsOf(values)}
          /\ idle' = 0
          /\ UNCHANGED <<opts, pc, dirty, hasOfflineData, snapExists, snapFile>>

\* Store.PutAll(values) on a file system that works.
PutAll(values) == PutAllIO(values, NoFault)

\* The loop of Delete over s.index in the order `ids`: [st, log, out, panic].
RECURSIVE deleteLoop(_, _, _, _, _)
deleteLoop(ids, p, st, log, out) ==
  IF ids = <<>> THEN [st |-> st, log |-> log, out |-> out, panic |-> FALSE]
  ELSE LET id  == Head(ids)
           pos == st.index[id]
           rec == st.records[pos]
       IN IF rec.deleted THEN deleteLoop(Tail(ids), p, st, log, out)
          ELSE IF rec.value = NoValue
          THEN [st |-> st, log |-> log, out |-> out, panic |-> TRUE]
          ELSE IF rec.value \notin p THEN deleteLoop(Tail(ids), p, st, log, out)
          ELSE deleteLoop(Tail(ids), p, deleteByID(st, id),
                          Append(log, deleteOp(id)), Append(out, rec.value))

\* The memory of a process that panicked is gone.
Crash ==
  /\ pc' = "crashed"
  /\ records' = <<>>
  /\ index' = EmptyIndex
  /\ dirty' = FALSE
  /\ onlineCount' = 0
  /\ hasOfflineData' = FALSE

\* Store.Delete(p).
Delete(p) ==
  /\ pc = "open"
  /\ \E o \in Orders(DOMAIN index) :
       LET r == deleteLoop(o, p, store, wal, <<>>)
       IN /\ wal' = r.log
          /\ IF r.panic
             THEN /\ Crash
                  /\ UNCHANGED <<banned, gone>>
             ELSE /\ records' = r.st.records
                  /\ index' = r.st.index
                  /\ dirty' = r.st.dirty
                  /\ banned' = banned \cup (p \cap Body)
                  /\ gone' = gone \cup Range(r.out)
                  /\ UNCHANGED <<pc, onlineCount, hasOfflineData>>
  /\ ideal' = idealDelete(ideal, p)
  /\ hist' = "any"
  /\ upd' = <<>>
  /\ idle' = 0
  /\ ret' = Ok
  /\ seen' = <<>>
  /\ UNCHANGED <<opts, snapExists, snapFile, dataExists, dataFile>>

\* One tick of snapshotLoop on the open store: snapshot().
SnapshotTick ==
  /\ pc = "open"
  /\ IF dirty /\ compactPanics(records)
     THEN /\ Crash
          /\ hist' = "any"
          /\ upd' = <<>>
          /\ idle' = 0
          /\ UNCHANGED <<wal, snapExists, snapFile>>
     ELSE LET recs == IF dirty THEN liveRecords(records) ELSE records
          IN /\ records' = recs
             /\ index' = IF dirty THEN recreateIndex(recs) ELSE index
             /\ dirty' = FALSE
             /\ snapFile' = snapshotLines(recs)
             /\ snapExists' = TRUE
             /\ wal' = truncate(wal)
             /\ UNCHANGED <<pc, onlineCount, hasOfflineData, hist, upd, idle>>
  /\ ret' = Ok
  /\ seen' = <<>>
  /\ UNCHANGED <<opts, dataExists, dataFile, ideal, banned, gone>>

\* Store.Close().
Close ==
  /\ pc = "open"
  /\ pc' = "closed"
  /\ hist' = "any"
  /\ upd' = <<>>
  /\ ret' = Ok
  /\ seen' = <<>>
  /\ UNCHANGED <<opts, memory, disk, ideal, banned, gone, idle>>

\* The store that loadSnapshot and replayWAL build from the files, before
\* the residency pass of the replay.
recovered(checkers) ==
  LET loaded == IF snapExists THEN loadSnapshot(snapFile) ELSE <<>>
      st0 == [records     |-> loaded,
              index       |-> IF snapExists THEN recreateIndex(loaded) ELSE EmptyIndex,
              onlineCount |-> 0,
              dirty       |-> FALSE,
              checkers    |-> checkers]
  IN replayWAL(st0, wal)

\* Open on the directory of a closed store or of a process that stopped,
\* with the same options but for the validators, which are `checkers`.
Open(checkers) ==
  /\ pc \in {"closed", "crashed"}
  /\ LET st1 == recovered(checkers)
     IN /\ index' = st1.index
        /\ dirty' = st1.dirty
        /\ wal' = truncateReadOnly(wal)
        /\ \E r \in handleResidency(st1) :
             /\ records' = r.records
             /\ onlineCount' = r.onlineCount
             /\ dataFile' = IF r.ran THEN appendOffline(dataFile, r.offline) ELSE dataFile
             /\ dataExists' = (dataExists \/ opts.hasFn \/ r.ran)
        /\ hasOfflineData' = dataExists'
  /\ pc' = "open"
  /\ idle' = IF pc = "closed" /\ idle < 2 THEN idle + 1 ELSE idle
  /\ opts' = [opts EXCEPT !.checkers = checkers]
  /\ ret' = Ok
  /\ seen' = <<>>
  /\ UNCHANGED <<snapExists, snapFile, ideal, hist, upd, banned, gone>>

\* An Open that creates the directory and the overflow file before it
\* validates its options.
OpenRefusedLate ==
  /\ pc \in {"closed", "crashed"}
  /\ dataExists' = TRUE
  /\ ret' = [op |-> "Open", err |-> "misconfigured"]
  /\ seen' = <<>>
  /\ UNCHANGED <<opts, pc, memory, wal, snapExists, snapFile, dataFile, history>>

\* Open with options whose IDFunc is nil: Validate returns an error and
\* Open returns (nil, err) before it touches the directory.
OpenRefused ==
  /\ pc \in {"closed", "crashed"}
  /\ ret' = [op |-> "Open", err |-> "misconfigured"]
  /\ seen' = <<>>
  /\ UNCHANGED <<opts, pc, memory, disk, history>>

\* Open with the options of the store but for the validators and for the
\* identifier function, which is given or nil.
OpenWith(checkers, idFuncGiven) ==
  IF idFuncGiven THEN Open(checkers) ELSE OpenRefused

\* ---------------------------------------------------------------- specification
\* The states the model explores.
Within ==
  /\ Len(records) <= MaxRecs
  /\ Len(wal) <= MaxWal
  /\ Len(dataFile) <= MaxData
  /\ onlineCount \in -MaxCount .. MaxCount

Next ==
  \/ \E v \in Body : Put(v) /\ Within' /\ UNCHANGED <<conc, snapTmp, closedStores>>
  \/ \E vs \in Batches : PutAll(vs) /\ Within' /\ UNCHANGED <<conc, snapTmp, closedStores>>
  \/ \E p \in Preds : Delete(p) /\ Within' /\ UNCHANGED <<conc, snapTmp, closedStores>>
  \/ SnapshotTick /\ Within' /\ UNCHANGED <<conc, snapTmp, closedStores>>
  \/ Close /\ UNCHANGED <<conc, snapTmp, closedStores>>
  \/ Open(opts.checkers) /\ Within' /\ UNCHANGED <<conc, snapTmp, closedStores>>

Spec == Init /\ [][Next]_vars

\* The scenario of TestGet_PreservesOrderAcrossMemoryAndDisk: a new store
\* that keeps only odd identifiers in memory (MaxOnlineRecords = -1) and is
\* given the identifiers 1, 2, 3, ... in increasing order, one Put each.
ScanConfig == Options(TRUE, OddIds, <<-1>>, <<>>, {})

ScanInit == Start(ScanConfig) /\ Single

ScanNext ==
  \E v \in ScanBody : v.id = Len(records) + 1 /\ Put(v) /\ UNCHANGED <<conc, snapTmp, closedStores>>

SpecScan == ScanInit /\ [][ScanNext]_vars

\* Stores with validators and identifier functions that can refuse a
\* write; the validators can differ from one Open to the next.
Chains ==
  { <<"allow">>, <<"norm", "bump">>, <<"limit", "bump">>, <<"frozen">>, <<"block">> }

CheckConfigs ==
  {Options(FALSE, {}, <<>>, c, n) : c \in Chains \ {<<"block">>}, n \in {{}, {MaxId}}}
    \cup {Options(TRUE, {}, <<-1>>, c, {}) : c \in {<<"allow">>, <<"frozen">>}}

CheckInit == \E o \in CheckConfigs : Start(o) /\ Single

CheckNext ==
  \/ \E v \in Body : Put(v) /\ Within' /\ UNCHANGED <<conc, snapTmp, closedStores>>
  \/ \E vs \in Batches : PutAll(vs) /\ Within' /\ UNCHANGED <<conc, snapTmp, closedStores>>
  \/ SnapshotTick /\ Within' /\ UNCHANGED <<conc, snapTmp, closedStores>>
  \/ Close /\ UNCHANGED <<conc, snapTmp, closedStores>>
  \/ \E c \in Chains : Open(c) /\ Within' /\ UNCHANGED <<conc, snapTmp, closedStores>>

SpecCheck == CheckInit /\ [][CheckNext]_vars

\* Stores on a file system whose writes can fail.
FaultConfigs ==
  { Options(FALSE, {},       <<>>,   <<"limit">>, {}),
    Options(TRUE,  ByVal(0), <<-1>>, <<>>,        {}) }

FaultInit == \E o \in FaultConfigs : Start(o) /\ Single

FaultNext ==
  \/ \E v \in Body, io \in Faults(1) : PutIO(v, io) /\ Within' /\ UNCHANGED <<conc, snapTmp, closedStores>>
  \/ \E vs \in Batches : \E io \in Faults(Len(vs)) :
       PutAllIO(vs, io) /\ Within' /\ UNCHANGED <<conc, snapTmp, closedStores>>

SpecFault == FaultInit /\ [][FaultNext]_vars

\* Stores that are closed and opened again, with and without an
\* identifier function.
OpenConfigs ==
  { Options(FALSE, {},       <<>>,   <<>>, {}),
    Options(TRUE,  ByVal(0), <<-1>>, <<>>, {}) }

OpenInit == \E o \in OpenConfigs : Start(o) /\ Single

OpenNext ==
  \/ \E v \in Body : Put(v) /\ Within' /\ UNCHANGED <<conc, snapTmp, closedStores>>
  \/ \E p \in Preds : Delete(p) /\ Within' /\ UNCHANGED <<conc, snapTmp, closedStores>>
  \/ SnapshotTick /\ Within' /\ UNCHANGED <<conc, snapTmp, closedStores>>
  \/ Close /\ UNCHANGED <<conc, snapTmp, closedStores>>
  \/ \E given \in BOOLEAN : OpenWith(opts.checkers, given) /\ Within' /\ UNCHANGED <<conc, snapTmp, closedStores>>

SpecOpen == OpenInit /\ [][OpenNext]_vars

\* Stores with a finite cap on the resident records and a residency
\* function that keeps nothing.
CapConfigs ==
  { Options(TRUE, {}, <<0>>, <<>>, {}),
    Options(TRUE, {}, <<1>>, <<>>, {}) }

CapInit == \E o \in CapConfigs : Start(o) /\ Single

\* No snapshot empties the log of these stores: it may grow to CapWal.
CapWithin ==
  /\ Len(records) <= MaxRecs
  /\ Len(wal) <= CapWal
  /\ Len(dataFile) <= MaxData
  /\ onlineCount \in -MaxCount .. MaxCount

CapNext ==
  \/ \E v \in Body : Put(v) /\ CapWithin' /\ UNCHANGED <<conc, snapTmp, closedStores>>
  \/ \E vs \in Batches : PutAll(vs) /\ CapWithin' /\ UNCHANGED <<conc, snapTmp, closedStores>>
  \/ \E p \in Preds : Delete(p) /\ CapWithin' /\ UNCHANGED <<conc, snapTmp, closedStores>>

SpecCap == CapInit /\ [][CapNext]_vars

\* Goroutines that call the open store at the same time, as in
\* TestPut_Concurrent: one writer per identifier, each calling Put once with
\* a body of its identifier, a reader that calls Get(true) again and again,
\* and the goroutine of snapshotLoop.  A call is several steps: the call,
\* s.mu.Lock(), the statements under the mutex, the deferred Unlock.
Writers == Ids
Reader  == MaxId + 1
Ticker  == MaxId + 2
Threads == Writers \cup {Reader, Ticker}

\* The values of the Puts that have returned.
returned == {threads[w].arg : w \in {x \in Writers : threads[x].pc = "done"}}

\* The goroutine goes from one position to the next.
goto(t, pos) == threads' = [threads EXCEPT ![t].pc = pos]

\* sync.Mutex never doing what mutexFree does: Lock() returns at once.
mutexIgnored == TRUE

\* Lock() returns only when no goroutine is between Lock and Unlock.
mutexFree == mu = {}

ConcConfig == Options(FALSE, {}, <<>>, <<>>, {})

ConcInit ==
  /\ Start(ConcConfig)
  /\ mu = {}
  /\ threads = [t \in Threads |->
                  [pc |-> "idle", arg |-> NoValue, must |-> {}, result |-> <<>>]]

\* A goroutine calls its operation: a writer Put(arg), the reader
\* Get(true) (must: the values of the Puts that have returned by now), the
\* ticker receives from ticker.C.
Call(t) ==
  /\ threads[t].pc \in (IF t \in Writers THEN {"idle"} ELSE {"idle", "done"})
  /\ \E a \in (IF t \in Writers THEN {b \in Body : idFunc(b) = t} ELSE {NoValue}) :
       threads' = [threads EXCEPT ![t] =
                     [pc     |-> "waiting",
                      arg    |-> a,
                      must   |-> IF t = Reader THEN returned ELSE {},
                      result |-> <<>>]]
  /\ UNCHANGED <<opts, pc, memory, disk, answers, history, mu, snapTmp, closedStores>>

\* s.mu.Lock() returns.
Lock(t) ==
  /\ threads[t].pc = "waiting"
  /\ mutexFree
  /\ mu' = mu \cup {t}
  /\ goto(t, "locked")
  /\ UNCHANGED <<opts, pc, memory, disk, answers, history, snapTmp, closedStores>>

\* Put under the mutex, up to the append to the log.
PutLogged(t) ==
  /\ t \in Writers
  /\ threads[t].pc = "locked"
  /\ pc = "open"
  /\ LET value   == threads[t].arg
         id      == idFunc(value)
         checked == runCheckers(currentOf(id), value)
     IN /\ ~idFails(value) /\ ~checked.err
        /\ wal' = Append(wal, putOp(id, checked.value))
  /\ goto(t, "logged")
  /\ UNCHANGED <<opts, pc, memory, snapExists, snapFile, dataExists, dataFile,
                 answers, history, mu, snapTmp, closedStores>>

\* Put under the mutex, from addOrUpdate to the return statement.
PutStored(t) ==
  /\ t \in Writers
  /\ threads[t].pc = "logged"
  /\ LET value  == threads[t].arg
         id     == idFunc(value)
         value2 == runCheckers(currentOf(id), value).value
     IN PutApplied(addOrUpdate(store, id, value2), id, value2, NoFault)
  /\ goto(t, "unlocking")
  /\ UNCHANGED <<wal, seen, mu, snapTmp, closedStores>>

\* Get(true) under the mutex.
GetScanned(t) ==
  /\ t = Reader
  /\ threads[t].pc = "locked"
  /\ threads' = [threads EXCEPT ![t].pc = "unlocking", ![t].result = Get(All)]
  /\ UNCHANGED <<opts, pc, memory, disk, answers, history, mu, snapTmp, closedStores>>

\* snapshot() under the mutex, in snapshotLoop.
Ticked(t) ==
  /\ t = Ticker
  /\ threads[t].pc = "locked"
  /\ SnapshotTick
  /\ goto(t, "unlocking")
  /\ UNCHANGED <<mu, snapTmp, closedStores>>

\* s.mu.Unlock(), and the operation returns.
Unlock(t) ==
  /\ threads[t].pc = "unlocking"
  /\ mu' = mu \ {t}
  /\ goto(t, "done")
  /\ UNCHANGED <<opts, pc, memory, disk, answers, history, snapTmp, closedStores>>

ConcNext ==
  \E t \in Threads :
    \/ Call(t)
    \/ Lock(t)
    \/ PutLogged(t)
    \/ PutStored(t)
    \/ GetScanned(t)
    \/ Ticked(t)
    \/ Unlock(t)

SpecConc == ConcInit /\ [][ConcNext]_vars

\* ---------------------------------------------------------------------
\* snapshot() as a sequence of steps, and a process that stops between
\* two of them.  The ticker goroutine holds the mutex from os.Create to the
\* truncation of the log, so the operations of the caller run only while
\* it is idle.
\* ---------------------------------------------------------------------

SnapConfigs == {Options(FALSE, {}, <<>>, <<>>, {}),
                Options(TRUE, ByVal(0), <<-1>>, <<>>, {})}

tickerAt(pos) == Ticker :> [pc |-> pos, arg |-> NoValue, must |-> {}, result |-> <<>>]

SnapInit ==
  /\ \E o \in SnapConfigs : Start(o)
  /\ mu = {}
  /\ threads = tickerAt("idle")

\* The tick is received, the mutex taken and snapshot.tmp created (or
\* emptied, if an earlier writer left one).
SnapCreate ==
  /\ pc = "open"
  /\ threads[Ticker].pc = "idle"
  /\ mutexFree
  /\ mu' = {Ticker}
  /\ snapTmp' = [exists |-> TRUE, lines |-> <<>>]
  /\ goto(Ticker, "created")
  /\ UNCHANGED <<opts, pc, memory, disk, answers, history, closedStores>>

\* if s.dirty { s.compact(); s.dirty = false }
SnapCompact ==
  /\ threads[Ticker].pc = "created"
  /\ IF dirty /\ compactPanics(records)
     THEN /\ Crash
          /\ mu' = {}
          /\ goto(Ticker, "idle")
          /\ hist' = "any"
          /\ upd' = <<>>
          /\ idle' = 0
     ELSE LET recs == IF dirty THEN liveRecords(records) ELSE records
          IN /\ records' = recs
             /\ index' = IF dirty THEN recreateIndex(recs) ELSE index
             /\ dirty' = FALSE
             /\ goto(Ticker, "writing")
             /\ UNCHANGED <<pc, onlineCount, hasOfflineData, hist, upd, idle, mu>>
  /\ UNCHANGED <<opts, disk, answers, ideal, banned, gone, snapTmp, closedStores>>

\* enc.Encode(r.value) of the next record.
SnapEncode ==
  /\ threads[Ticker].pc = "writing"
  /\ Len(snapTmp.lines) < Len(snapshotLines(records))
  /\ snapTmp' = [snapTmp EXCEPT
                   !.lines = Append(@, snapshotLines(records)[Len(@) + 1])]
  /\ UNCHANGED <<opts, pc, memory, disk, answers, history, conc, closedStores>>

\* f.Sync(), f.Close() and os.Rename(tmp, final).
SnapRename ==
  /\ threads[Ticker].pc = "writing"
  /\ Len(snapTmp.lines) = Len(snapshotLines(records))
  /\ snapFile' = snapTmp.lines
  /\ snapExists' = TRUE
  /\ snapTmp' = NoFile
  /\ goto(Ticker, "renamed")
  /\ UNCHANGED <<opts, pc, memory, wal, dataExists, dataFile, answers, history, mu, closedStores>>

\* truncate(s.wal.file), return, s.mu.Unlock().
SnapTruncate ==
  /\ threads[Ticker].pc = "renamed"
  /\ wal' = truncate(wal)
  /\ mu' = {}
  /\ goto(Ticker, "idle")
  /\ UNCHANGED <<opts, pc, memory, snapExists, snapFile, dataExists, dataFile,
                 answers, history, snapTmp, closedStores>>

\* The process stops while snapshot() is running: the memory is gone, the
\* files stay as the writer left them.
Stop ==
  /\ pc = "open"
  /\ threads[Ticker].pc \in {"created", "writing", "renamed"}
  /\ Crash
  /\ mu' = {}
  /\ goto(Ticker, "stopped")
  /\ hist' = "any"
  /\ upd' = <<>>
  /\ idle' = 0
  /\ UNCHANGED <<opts, disk, answers, ideal, banned, gone, snapTmp, closedStores>>

\* Open in a new process: it starts a new snapshotLoop and neither reads
\* nor removes snapshot.tmp.
SnapOpen ==
  /\ Open(opts.checkers)
  /\ mu' = {}
  /\ threads' = tickerAt("idle")
  /\ UNCHANGED <<snapTmp, closedStores>>

SnapNext ==
  \/ \E v \in Body : Put(v) /\ mutexFree /\ Within' /\ UNCHANGED <<conc, snapTmp, closedStores>>
  \/ \E p \in Preds : Delete(p) /\ mutexFree /\ Within' /\ UNCHANGED <<conc, snapTmp, closedStores>>
  \/ SnapCreate
  \/ SnapCompact
  \/ SnapEncode
  \/ SnapRename
  \/ SnapTruncate
  \/ Stop
  \/ SnapOpen /\ Within'

SpecSnap == SnapInit /\ [][SnapNext]_vars

\* ---------------------------------------------------------------------
\* A directory used by one store after the other in the same process.
\* Close closes the log and nothing else: the snapshotLoop goroutine of the
\* closed store keeps receiving ticks and calling snapshot() on the memory
\* that store had.
\* ---------------------------------------------------------------------

MaxClosed == 1

ReuseConfig == Options(FALSE, {}, <<>>, <<>>, {})

ReuseInit == Start(ReuseConfig) /\ Single

\* Store.Close(): the ticker of the store is not stopped.
closeKeepingTicker(stores, st) == stores \cup {[records |-> st.records, dirty |-> st.dirty]}

\* Store.Close() and what it leaves running.
CloseStore ==
  /\ Close
  /\ closedStores' = closeKeepingTicker(closedStores, store)
  /\ UNCHANGED <<conc, snapTmp>>

\* One tick of the snapshotLoop of a closed store: snapshot() on its own
\* memory.  truncate(s.wal.file) fails on the closed handle and its error is
\* dropped, so the log stays as it is.
ClosedStoreTick ==
  \E z \in closedStores :
    LET recs == IF z.dirty THEN liveRecords(z.records) ELSE z.records
    IN /\ snapFile' = snapshotLines(recs)
       /\ snapExists' = TRUE
       /\ closedStores' = (closedStores \ {z}) \cup {[records |-> recs, dirty |-> FALSE]}
       /\ UNCHANGED <<opts, pc, memory, wal, dataExists, dataFile, answers, history,
                      conc, snapTmp>>

ReuseWithin == Within /\ Cardinality(closedStores) <= MaxClosed

ReuseNext ==
  \/ \E v \in Body : Put(v) /\ Within' /\ UNCHANGED <<conc, snapTmp, closedStores>>
  \/ SnapshotTick /\ Within' /\ UNCHANGED <<conc, snapTmp, closedStores>>
  \/ CloseStore /\ ReuseWithin'
  \/ Open(opts.checkers) /\ Within' /\ UNCHANGED <<conc, snapTmp, closedStores>>
  \/ ClosedStoreTick

SpecReuse == ReuseInit /\ [][ReuseNext]_vars

\* ---------------------------------------------------------------- claims
\* The records whose body is held in memory, as the tests count them.
residentCount ==
  Cardinality({i \in DOMAIN records : records[i].value # NoValue /\ ~records[i].deleted})

onlyWrites == hist \in {"puts", "writes"}

\* C2. Delete durability: on a store opened after the last write, no Get
\* returns a body that a successful Delete removed and that was not Put
\* again.
DeleteDurability ==
  (pc = "open" /\ idle >= 1) =>
    \A p \in Preds : \A b \in Range(Get(p)) : b \notin gone

\* C3. Identity uniqueness: after Put and PutAll only, Get(true) returns one
\* body per distinct id written and no id twice.
IdentityUniqueness ==
  (pc = "open" /\ onlyWrites) =>
    LET g == Get(All)
    IN /\ Len(g) = Cardinality(idsOf(ideal))
       /\ \A i, j \in DOMAIN g : g[i].id = g[j].id => i = j

\* C4. Update replaces: right after Put(v2) over the live body v of the same
\* id, Get(true) returns v2 and does not return v.
UpdateReplaces ==
  (pc = "open" /\ upd # <<>>) =>
    /\ upd[2] \in Range(Get(All))
    /\ upd[1] \notin Range(Get(All))

\* C5. Insertion order: after Puts only, Get(true) yields the bodies in the
\* order of the first Put of their ids, each id holding its last body.
InsertionOrder ==
  (pc = "open" /\ hist = "puts") => Get(All) = ideal

\* C6. Delete excludes: no Get returns a body that a successful Delete
\* matched, until a Put of that body's id.
DeleteExcludes ==
  pc = "open" => \A p \in Preds : \A b \in Range(Get(p)) : b \notin banned

\* C7. Residency cap: with a cap n >= 0 and a residency function that
\* always returns false, at most n records hold a body in memory after
\* every Put and PutAll.
ResidencyCap ==
  (/\ pc = "open" /\ onlyWrites
   /\ opts.hasFn /\ opts.keep = {}
   /\ opts.max # <<>> /\ maxInMemory >= 0) => residentCount <= maxInMemory

\* C8. Residency completeness: with max_in_memory = -1 and a residency
\* function that always returns false, after every write onlineCount is 0,
\* no record holds a body in memory and Get(true) returns every body
\* written.
ResidencyCompleteness ==
  (/\ pc = "open" /\ onlyWrites
   /\ opts.hasFn /\ opts.keep = {} /\ opts.max = <<-1>>) =>
     /\ onlineCount = 0
     /\ residentCount = 0
     /\ \A b \in Range(ideal) : b \in Range(Get(All))

\* The bodies of the resident records that are not tombstoned, in table
\* order, and the decoded lines of the overflow file, in file order.
residentBodies ==
  LET live == SelectSeq(records, LAMBDA r : ~r.deleted /\ r.value # NoValue)
  IN [i \in DOMAIN live |-> live[i].value]
overflowBodies ==
  IF dataExists THEN [i \in DOMAIN dataFile |-> DecodeLine(dataFile[i])] ELSE <<>>

\* The identifiers of the bodies of a result, in the order of the result.
idSeq(values) == [i \in DOMAIN values |-> idFunc(values[i])]

\* C9. Get keeps the insertion order across memory and disk: keeping only
\* odd identifiers in memory with MaxOnlineRecords = -1, after the Puts of
\* the identifiers 1..ScanMax in increasing order Get(true) returns the
\* bodies in the order 1, 2, ..., ScanMax.
GetScanOrder ==
  (/\ pc = "open" /\ opts = ScanConfig /\ hist = "puts"
   /\ idSeq(ideal) = [i \in 1 .. ScanMax |-> i]) =>
    idSeq(Get(All)) = [i \in 1 .. ScanMax |-> i]

NilMaxDisablesResidency ==
  (opts.hasFn /\ opts.max = <<>>) =>
    /\ dataFile = <<>>
    /\ \A i \in DOMAIN records : records[i].value # NoValue

\* C12. Open honours residency: on a store whose residency pass always runs,
\* reopened after a Close, onlineCount is the number of live bodies that the
\* residency function keeps, whether they came from the log or the snapshot.
OpenHonoursResidency ==
  (pc = "open" /\ idle >= 1 /\ opts.hasFn /\ maxInMemory = -1) =>
    onlineCount = Cardinality({i \in DOMAIN ideal : residencyFn(ideal[i])})

\* C13. Validators never run on recovery: on a store reopened with a
\* validator that refuses every value, Get(true) returns every body whose
\* last operation was a successful write before the Close.
ValidatorsNotOnRecovery ==
  (pc = "open" /\ idle >= 1 /\ opts.checkers = <<"block">>) =>
    \A b \in Range(ideal) : b \in Range(Get(All))

\* C13 witness: a store reopened with the refusing validator that returns
\* the body written before the Close.
ValidatorsNotOnRecoveryWitness ==
  /\ pc = "open" /\ idle >= 1 /\ opts.checkers = <<"block">>
  /\ ideal # <<>> /\ wal # <<>>
  /\ \A b \in Range(ideal) : b \in Range(Get(All))

\* C14. A Put that returns an error of the identifier function or of a
\* validator changes nothing: the log, the table, the index, onlineCount,
\* dirty and the overflow file stay as they are and every Get returns what
\* it returned before.
PutErrorChangesNothing ==
  [][(ret'.op = "Put" /\ ret'.err \in {"id", "check"}) =>
       /\ UNCHANGED <<memory, disk>>
       /\ \A p \in Preds : Get(p)' = Get(p)]_vars

\* C14 witness: a Put was refused by a validator on a store that holds a
\* record and a logged entry.
PutErrorChangesNothingWitness ==
  /\ pc = "open"
  /\ ret = [op |-> "Put", err |-> "check"]
  /\ records # <<>> /\ wal # <<>> /\ ~dirty

\* The bodies a later Open would recover from the files.
recoverable ==
  LET st == recovered(opts.checkers)
      live == SelectSeq(st.records, LAMBDA r : ~r.deleted)
  IN [i \in DOMAIN live |-> live[i].value]

\* C15. PutAll is all-or-nothing: a PutAll that returns an error (of the
\* identifier function, of a validator or of the append to the log) applies
\* no body of the batch, neither to the table in memory nor to what a later
\* Open recovers.
PutAllAllOrNothing ==
  [][(ret'.op = "PutAll" /\ ret'.err \in {"id", "check", "wal"}) =>
       /\ UNCHANGED memory
       /\ recoverable' = recoverable]_vars

\* C19. A failed overflow append leaves the records of its pass resident:
\* no body becomes absent, onlineCount is not decremented and Get(true)
\* still returns every live body.
OverflowFailureKeepsResident ==
  [][ret'.err = "data" =>
       /\ \A i \in DOMAIN records' :
            records'[i].value = NoValue =>
              i \in DOMAIN records /\ records[i].value = NoValue
       /\ onlineCount' >= onlineCount
       /\ \A b \in Range(ideal') : b \in Range(Get(All)')]_vars

\* The table and the log after Put(values[1]); ...; Put(values[n]) on a
\* store without residency function: [err, st, log].
RECURSIVE putEach(_, _, _)
putEach(st, log, values) ==
  IF values = <<>> THEN [err |-> FALSE, st |-> st, log |-> log]
  ELSE LET v   == Head(values)
           id  == idFunc(v)
           old == IF id \in DOMAIN st.index
                  THEN st.records[st.index[id]].value ELSE NoValue
           r   == checkersLoop(st.checkers, old, v)
       IN IF idFails(v) \/ r.err THEN [err |-> TRUE, st |-> st, log |-> log]
          ELSE putEach(addOrUpdate(st, id, r.value), Append(log, putOp(id, r.value)),
                       Tail(values))

\* C16. PutAll behaves like a Put of each value in order: when both succeed
\* (on a store without residency function), the record table and the log
\* after PutAll(values) are those after the Puts.
PutAllLikePuts ==
  [][\A vs \in Batches :
       (~opts.hasFn /\ PutAll(vs) /\ ret' = Ok /\ ~putEach(store, wal, vs).err) =>
         /\ records' = putEach(store, wal, vs).st.records
         /\ wal' = putEach(store, wal, vs).log]_vars

\* The output of a chain of validators: the last validator applied to the
\* output of the chain before it, a nil replacement keeping that output.
RECURSIVE composed(_, _, _)
composed(chain, old, v) ==
  IF chain = <<>> THEN v
  ELSE LET before == composed(SubSeq(chain, 1, Len(chain) - 1), old, v)
           r      == checker(chain[Len(chain)], old, before)
       IN IF r.next = NoValue THEN before ELSE r.next

\* C17. Validator chain composition: a successful Put logs and stores the
\* output of the configured chain applied in order to the proposed value.
ChainComposition ==
  [][\A v \in Body :
       (Put(v) /\ ret' = Ok) =>
         LET out == composed(opts.checkers, currentOf(idFunc(v)), v)
             rec == records'[index'[idFunc(v)]]
         IN /\ wal' = Append(wal, putOp(idFunc(v), out))
            /\ \/ rec.value = out
               \/ rec.value = NoValue /\ dataFile' = Append(dataFile, out)]_vars

\* C17 witness: a successful Put through a chain of two validators that
\* both changed the proposed value.
ChainCompositionWitness ==
  /\ pc = "open" /\ ret = Ok /\ seen # <<>>
  /\ opts.checkers = <<"norm", "bump">>
  /\ wal # <<>> /\ wal[Len(wal)].value.val = 1
  /\ \E i \in DOMAIN records : records[i].value # NoValue /\ records[i].value.val = 1

\* C18. The validators of a Put are given old = nil exactly when the
\* identifier has no live record, and the stored body of the identifier
\* otherwise, also when that body was demoted to the overflow file.
ValidatorSeesOld ==
  seen # <<>> => seen[1] = seen[2]

WriteAhead ==
  pc # "crashed" =>
    /\ \A i \in DOMAIN records :
         (~records[i].deleted /\ records[i].value # NoValue) =>
           records[i].value \in Range(recoverable)
    /\ \A k \in DOMAIN index : \E b \in Range(recoverable) : idFunc(b) = k
    /\ \A b \in Range(recoverable) :
         \E i \in DOMAIN records :
           ~records[i].deleted /\ records[i].value \in {b, NoValue}

\* C22. After Open has replayed the log, the log is truncated to zero
\* length: when Open returns, wal.log holds no entry.
OpenTruncatesLog ==
  [][(pc \in {"closed", "crashed"} /\ pc' = "open") => wal' = <<>>]_vars

\* The results Get(true) can give after a Close and an Open of the store
\* in its present state (one per order of the residency pass of the replay).
reopenedGets ==
  {onlineMatching(r.records, All)
     \o (IF dataExists \/ opts.hasFn \/ r.ran
         THEN getOfflineMatching(IF r.ran THEN appendOffline(dataFile, r.offline)
                                 ELSE dataFile, All)
         ELSE <<>>) : r \in handleResidency(recovered(opts.checkers))}

\* C23. Snapshot round trip: after a successful snapshot the snapshot file
\* holds one line per record that is not tombstoned, in table order, the
\* line of a record that holds its body decoding to that body, and the log
\* is empty; a Close and an Open after the snapshot give the Get(true)
\* result of before the snapshot, also with demoted records.
SnapshotRoundTrip ==
  [][(SnapshotTick /\ pc' = "open") =>
       /\ wal' = <<>>
       /\ Len(snapFile') = Len(liveRecords(records'))
       /\ \A i \in DOMAIN snapFile' :
            liveRecords(records')[i].value # NoValue =>
              DecodeLine(snapFile'[i]) = liveRecords(records')[i].value
       /\ \A g \in reopenedGets' : g = Get(All)]_vars

matching(p) ==
  {i \in DOMAIN records :
     ~records[i].deleted /\ records[i].value # NoValue /\ records[i].value \in p}

\* C25. Delete(p) returns exactly the bodies of the live records that
\* satisfy p, each once (it tombstones exactly those records and returns
\* their bodies), and a second Delete(p) right after it returns nothing,
\* appends nothing to the log and changes no record.
DeleteReturns ==
  [][\A p \in Preds : Delete(p) =>
       /\ pc' = "open"
       /\ Len(records') = Len(records)
       /\ \A i \in DOMAIN records :
            records'[i].deleted = (records[i].deleted \/ i \in matching(p))
       /\ gone' = gone \cup {records[i].value : i \in matching(p)}
       /\ Len(wal') = Len(wal) + Cardinality(matching(p))
       /\ \A o \in Orders(DOMAIN index') :
            LET again == deleteLoop(o, p, store', wal', <<>>)
            IN /\ ~again.panic
               /\ again.out = <<>>
               /\ again.log = wal'
               /\ again.st = store']_vars

\* C26. A Delete whose predicate matches no live record (no body of the
\* table, none of the overflow file and none the callers wrote and did not
\* delete) succeeds and leaves the record table, the index, the dirty flag,
\* onlineCount, the log and the overflow file unchanged.
DeleteNoMatch ==
  [][\A p \in Preds :
       (/\ Delete(p)
        /\ matching(p) = {}
        /\ \A b \in Range(Get(All)) \cup Range(ideal) : b \notin p) =>
         /\ pc' = "open"
         /\ UNCHANGED <<records, index, dirty, onlineCount, wal, dataExists, dataFile>>]_vars

\* The positions of the records of identifier k that are not tombstoned:
\* those that hold a body of k and the demoted record the index has for k.
liveOf(k) ==
  {i \in DOMAIN records :
     /\ ~records[i].deleted
     /\ IF records[i].value # NoValue THEN idFunc(records[i].value) = k
        ELSE k \in DOMAIN index /\ index[k] = i}

\* C27. A tombstoned record never becomes visible again: while the store
\* is open a record whose deleted flag is set keeps it until a compaction
\* removes the tombstoned records, and a Put of an identifier that was
\* deleted leaves exactly one live record of that identifier and Get
\* returns one body for it, the new one.
TombstoneStays ==
  [][(pc = "open" /\ pc' = "open") =>
       /\ \A i \in DOMAIN records :
            records[i].deleted =>
              \/ i \in DOMAIN records' /\ records'[i].deleted
              \/ \A j \in DOMAIN records' : ~records'[j].deleted
       /\ \A v \in Body :
            (Put(v) /\ \E b \in gone : idFunc(b) = idFunc(v)) =>
              /\ Cardinality(liveOf(idFunc(v))') = 1
              /\ Get(ById(idFunc(v)))' = <<v>>]_vars

\* C28. Between operations onlineCount is the number of resident records:
\* the records that hold a body and are not tombstoned.
OnlineCountExact ==
  pc = "open" => onlineCount = residentCount

\* The number of records of a table that hold a body and are not
\* tombstoned.
residentIn(recs) ==
  Cardinality({i \in DOMAIN recs : recs[i].value # NoValue /\ ~recs[i].deleted})

\* The table a Put or a PutAll hands to its residency pass.
afterPut(v) ==
  addOrUpdate(store, idFunc(v), runCheckers(currentOf(idFunc(v)), v).value).records
afterPutAll(vs) == addAll(store, vs).records

\* C29. With a finite cap n >= 0 the residency pass demotes a record only
\* when more than n records are resident: a Put or PutAll that leaves at
\* most n resident records demotes nothing (no body leaves the table and
\* nothing is appended to the overflow file), whatever the number of
\* indexed records.
DemotesOnlyOverCap ==
  [][(opts.hasFn /\ opts.max # <<>> /\ maxInMemory >= 0) =>
       /\ \A v \in Body :
            (Put(v) /\ residentIn(afterPut(v)) <= maxInMemory) =>
              records' = afterPut(v) /\ dataFile' = dataFile
       /\ \A vs \in Batches :
            (PutAll(vs) /\ ret'.err = "" /\ residentIn(afterPutAll(vs)) <= maxInMemory) =>
              records' = afterPutAll(vs) /\ dataFile' = dataFile]_vars

\* C30. Early stop of the residency pass: with a finite cap n and a
\* residency function that always returns false, the pass of a Put or
\* PutAll that starts with more than n resident records ends with exactly
\* n resident records.
PassStopsAtCap ==
  [][(opts.hasFn /\ opts.keep = {} /\ opts.max # <<>> /\ maxInMemory >= 0) =>
       /\ \A v \in Body :
            (Put(v) /\ residentIn(afterPut(v)) > maxInMemory) =>
              residentCount' = maxInMemory
       /\ \A vs \in Batches :
            (PutAll(vs) /\ ret'.err = "" /\ residentIn(afterPutAll(vs)) > maxInMemory) =>
              residentCount' = maxInMemory]_vars

\* The identifiers whose record is demoted: indexed, not tombstoned, its
\* body absent from memory.
demoted ==
  {k \in DOMAIN index :
     ~records[index[k]].deleted /\ records[index[k]].value = NoValue}

\* C31. Every demoted record has a copy of its current body in the
\* overflow file: a line of the file holds a body of its identifier, and
\* the body the callers last wrote for it is a line of the file.
DemotedOnDisk ==
  pc = "open" =>
    \A k \in demoted :
      /\ dataExists
      /\ \E i \in DOMAIN dataFile : idFunc(DecodeLine(dataFile[i])) = k
      /\ liveBody(ideal, k) # NoValue =>
           \E i \in DOMAIN dataFile : DecodeLine(dataFile[i]) = liveBody(ideal, k)

\* What a residency pass may do to the table `before` (whose onlineCount
\* was beforeCount): bodies become absent, onlineCount drops by their
\* number and they are appended to the overflow file; the records keep
\* their order and their deleted flags.
passOnly(before, beforeCount) ==
  /\ Len(records') = Len(before)
  /\ \A i \in DOMAIN before :
       /\ records'[i].deleted = before[i].deleted
       /\ records'[i].value \in {before[i].value, NoValue}
  /\ LET out == {i \in DOMAIN before : records'[i].value # before[i].value}
     IN /\ onlineCount' = beforeCount - Cardinality(out)
        /\ Len(dataFile') = Len(dataFile) + Cardinality(out)
        /\ SubSeq(dataFile', 1, Len(dataFile)) = dataFile
        /\ {DecodeLine(dataFile'[j]) : j \in Len(dataFile) + 1 .. Len(dataFile')}
             = {before[i].value : i \in out}

\* C32. A residency pass changes only record bodies (present to absent),
\* onlineCount and the overflow file.  In Put, PutAll and Open the log,
\* the index and the dirty flag are what the write or the replay made
\* them, and the table differs from the one handed to the pass only by
\* the demoted bodies.
PassFrame ==
  [][/\ \A v \in Body :
          (Put(v) /\ ret'.err = "") =>
            LET id     == idFunc(v)
                value2 == runCheckers(currentOf(id), v).value
                st     == addOrUpdate(store, id, value2)
            IN /\ wal' = Append(wal, putOp(id, value2))
               /\ index' = st.index
               /\ dirty' = dirty
               /\ passOnly(st.records, st.onlineCount)
     /\ \A vs \in Batches :
          (PutAll(vs) /\ ret'.err = "") =>
            LET st == addAll(store, vs)
            IN /\ wal' = wal \o [i \in DOMAIN vs |-> putOp(idFunc(vs[i]), vs[i])]
               /\ index' = st.index
               /\ dirty' = dirty
               /\ passOnly(st.records, st.onlineCount)
     /\ (pc \in {"closed", "crashed"} /\ pc' = "open") =>
          LET st == recovered(opts.checkers)
          IN /\ wal' = wal
             /\ index' = st.index
             /\ dirty' = st.dirty
             /\ passOnly(st.records, st.onlineCount)]_vars

PassFrameWitness ==
  /\ pc = "open"
  /\ demoted # {}
  /\ residentCount > 0
  /\ dataFile # <<>> /\ wal # <<>>

\* C33. Compaction (the snapshot of a dirty store) completes, also with
\* demoted records among the survivors; the new table holds exactly the
\* records of the old one that are not tombstoned, in the same order, and
\* the new index maps the identifier of every record that holds a body to
\* that record.
CompactionKeepsLive ==
  [][(SnapshotTick /\ dirty) =>
       /\ pc' = "open"
       /\ records' = liveRecords(records)
       /\ \A i \in DOMAIN records' :
            records'[i].value # NoValue =>
              /\ idFunc(records'[i].value) \in DOMAIN index'
              /\ index'[idFunc(records'[i].value)] = i]_vars

\* C34. Delete evaluates its predicate only on resident bodies: with
\* demoted records in the index Delete(p) completes normally and leaves
\* every demoted record as it was, indexed and not tombstoned.
DeleteSkipsDemoted ==
  [][\A p \in Preds :
       (Delete(p) /\ demoted # {}) =>
         /\ pc' = "open"
         /\ \A k \in demoted :
              /\ k \in DOMAIN index'
              /\ index'[k] = index[k]
              /\ records'[index'[k]] = records[index[k]]]_vars


\* C35. Snapshot replacement is atomic with respect to a process that
\* stops: when the process stops at a step of the snapshot writer (after
\* snapshot.tmp is created, after some of its lines are written, after the
\* rename and before the truncation of the log), an Open of the directory
\* gives a store whose Get(true) holds the bodies that Get(true) held when
\* the writer started, which are the acknowledged ones, and no other body;
\* that Open leaves snapshot.tmp as it was, no line of it being read.
SnapshotAtomic ==
  [][/\ Stop => \A g \in reopenedGets' : Range(g) = Range(Get(All))
     /\ (threads = tickerAt("stopped") /\ pc' = "open") =>
          /\ Range(Get(All)') \in {Range(g) : g \in reopenedGets}
          /\ snapTmp' = snapTmp]_vars


\* The bodies that the store in memory holds for identifier k: the body of
\* the indexed record, or, when that record is demoted, the bodies that
\* data.ndjson holds for k.
bodiesOf(k) ==
  IF k \in DOMAIN index /\ ~records[index[k]].deleted
  THEN IF records[index[k]].value # NoValue
       THEN {records[index[k]].value}
       ELSE {DecodeLine(dataFile[i]) : i \in {j \in DOMAIN dataFile :
                                               idFunc(DecodeLine(dataFile[j])) = k}}
  ELSE {}

\* The bodies that loading snapshot.ndjson and replaying wal.log give for k.
recoveredOf(k) ==
  LET st == recovered(opts.checkers)
  IN {st.records[i].value : i \in {j \in DOMAIN st.records :
                                     /\ ~st.records[j].deleted
                                     /\ idFunc(st.records[j].value) = k}}

\* C36. Recoverability: in every state between two operations of an open
\* store, after Open and after each snapshot included, loading
\* snapshot.ndjson and replaying wal.log gives, for every identifier whose
\* record is not demoted, the live body that the store in memory holds for
\* it and no live body when memory holds none; the body of a demoted record
\* is in data.ndjson.
Recoverability ==
  pc = "open" =>
    /\ \A k \in Ids \ demoted : recoveredOf(k) = bodiesOf(k)
    /\ \A k \in demoted : bodiesOf(k) # {}


\* C37. A closed store never writes a persisted artifact again: a tick of
\* the snapshotLoop of a closed store leaves snapshot.ndjson, wal.log and
\* data.ndjson as they are, so that what the directory recovers to, which
\* holds the writes acknowledged by a store opened later on the same
\* directory, is not changed by it.
ClosedStoreSilent ==
  [][ClosedStoreTick => (disk' = disk /\ recoverable' = recoverable)]_vars


\* C38. Index and record sequence agree: in every reachable state each
\* identifier of the index maps to a record of the sequence that is not
\* tombstoned, every record that is not tombstoned is the target of exactly
\* one identifier of the index, and no two identifiers map to the same
\* record.
IndexConsistent ==
  /\ \A k \in DOMAIN index :
       index[k] \in DOMAIN records /\ ~records[index[k]].deleted
  /\ \A i \in DOMAIN records :
       ~records[i].deleted => Cardinality({k \in DOMAIN index : index[k] = i}) = 1
  /\ \A k1, k2 \in DOMAIN index : index[k1] = index[k2] => k1 = k2


\* C39. online_count stays within the table: in every state of an open
\* store, after any sequence of Put, PutAll, Delete, residency passes,
\* snapshots and reopenings, 0 <= onlineCount and onlineCount is at most the
\* number of records of the table.
OnlineCountInRange ==
  pc = "open" => (0 <= onlineCount /\ onlineCount <= Len(records))


\* How many times each body occurs in a result.
timesIn(seq) == [b \in Range(seq) |-> Cardinality({i \in DOMAIN seq : seq[i] = b})]

\* C40. Close and Open with residency: for a store that has a residency
\* function, Get(true) right after Close and Open returns the bodies that
\* Get(true) returned right before the Close, each as many times; recovery
\* adds no second copy of a body that data.ndjson already holds and no
\* body that was never written.
CloseOpenRoundTrip ==
  [][(Close /\ opts.hasFn) =>
       \A g \in reopenedGets' : timesIn(g) = timesIn(Get(All))]_vars

============================================================================
